---- MODULE Spec2Model ----
(***************************************************************************)
(* Streaming JSON completion engine (JSONBalancer).                        *)
(*                                                                         *)
(* Program state: the lexical state (JSONState), the closing stack and the *)
(* corruption flag of one JSONBalancer.  Operations: add_delta,            *)
(* get_completion and process_delta.  Characters are one-character         *)
(* strings; text (fragments, buffers, completions) is a sequence of them.  *)
(***************************************************************************)
EXTENDS Integers, Sequences, FiniteSets, TLC

VARIABLES
    state,          \* JSONBalancer.state
    closing_stack,  \* JSONBalancer.closing_stack (last element = top)
    is_corrupted,   \* JSONBalancer.is_corrupted
    op,             \* the operation that ran last
    ret,            \* the value the last operation returned
    ref,            \* reference JSON recogniser run over the characters handed to the lexer
    seenCorrupted,  \* history: some add_delta / process_delta has returned Corrupted
    preCorrupted    \* history: is_corrupted as the last operation found it

vars == <<state, closing_stack, is_corrupted, op, ret, ref, seenCorrupted, preCorrupted>>

(***************************************************************************)
(* Bounds of the model.                                                    *)
(***************************************************************************)
MaxDepth == 4   \* longest closing stack explored
MaxBuf == 3     \* longest non-string buffer explored

\* The characters fragments are made of: every structural character, the
\* space, a digit and the other characters of numbers, the letters of the
\* keyword true (which are also the escapes \t \r \u and, for e, a hex
\* digit), and one ordinary character.
Alphabet ==
    {"{", "}", "[", "]", "\"", ":", ",", "\\", " ",
     "1", "-", ".", "e", "t", "r", "u", "x"}

\* Fragments of several characters, after the deltas of the test table
\* (balancing_test_data.rs): whole documents, a keyword and an escape split
\* across fragments, and fragments whose first or second character corrupts.
LongFragments ==
    {<<"[", "]">>, <<"{", "}">>, <<"[", "t">>, <<"r", "u">>, <<"1", "e">>,
     <<"1", ".">>, <<"\"", "x">>, <<"\"", "\\">>, <<"\\", "\"">>, <<"]", "]">>,
     <<"}", "x">>, <<",", " ">>, <<" ", " ">>, <<"\"", "x", "\"">>,
     <<"[", "1", ",", " ", "1", "]">>, <<"{", "\"", "x", "\"", ":", "1", "}">>}

Fragments ==
    {<<>>} \cup {<<c>> : c \in Alphabet} \cup LongFragments

(***************************************************************************)
(* JSONState: Pending | Brace(BraceState) | Bracket(BracketState), as a    *)
(* record.  sub is the Brace/Bracket sub-state, val the PrimValue variant, *)
(* tag the StringState or NonStringState variant, buf the non-string       *)
(* buffer.                                                                 *)
(***************************************************************************)
JSONState(ctx, sub, val, tag, buf) ==
    [ctx |-> ctx, sub |-> sub, val |-> val, tag |-> tag, buf |-> buf]

Pending == JSONState("Pending", "None", "None", "None", <<>>)

BraceState(sub) == JSONState("Brace", sub, "None", "None", <<>>)

BracketState(sub) == JSONState("Bracket", sub, "None", "None", <<>>)

InKey(ss) == JSONState("Brace", "InKey", "None", ss, <<>>)

InValueString(ctx, ss) == JSONState(ctx, "InValue", "String", ss, <<>>)

InValueNonString(ctx, tag, buf) == JSONState(ctx, "InValue", "NonString", tag, buf)

IsInKey(st, ss) == st.ctx = "Brace" /\ st.sub = "InKey" /\ st.tag = ss

IsStringValue(st, ss) == st.sub = "InValue" /\ st.val = "String" /\ st.tag = ss

IsNonString(st) == st.sub = "InValue" /\ st.val = "NonString"

IsCompletableNonString(st) == IsNonString(st) /\ st.tag = "Completable"

\* InKey(ss) or InValue(String(ss)), in either container
IsString(st, ss) == IsInKey(st, ss) \/ IsStringValue(st, ss)

\* the same state with another StringState
WithStringState(st, ss) == [st EXCEPT !.tag = ss]

(***************************************************************************)
(* Lexer results: Ok(token) or Err(error), with the state as the handler   *)
(* left it.                                                                *)
(***************************************************************************)
LexOk(tok, st) == [ok |-> TRUE, tok |-> tok, st |-> st]

LexErr(err, st) == [ok |-> FALSE, tok |-> err, st |-> st]

Last(s) == s[Len(s)]

Front(s) == SubSeq(s, 1, Len(s) - 1)

IsPrefixOf(s, t) == Len(s) <= Len(t) /\ SubSeq(t, 1, Len(s)) = s

IsAsciiDigit(c) == c \in {"0", "1", "2", "3", "4", "5", "6", "7", "8", "9"}

IsWhitespace(c) == c \in {" ", "\t", "\n", "\r"}

(***************************************************************************)
(* str::parse::<f64>: Sign? ('inf' | 'infinity' | 'nan' | Number), with    *)
(* Number ::= (Digit+ | Digit+ '.' Digit* | Digit* '.' Digit+) Exp? and    *)
(* Exp ::= [eE] Sign? Digit+, run as an automaton over the text.           *)
(***************************************************************************)
F64Next(q, c) ==
    CASE q = "Start" /\ c \in {"+", "-"} -> "Sign"
      [] q \in {"Start", "Sign", "Int"} /\ IsAsciiDigit(c) -> "Int"
      [] q \in {"Start", "Sign"} /\ c = "." -> "Dot"
      [] q = "Int" /\ c = "." -> "IntDot"
      [] q \in {"IntDot", "Dot", "Frac"} /\ IsAsciiDigit(c) -> "Frac"
      [] q \in {"Int", "IntDot", "Frac"} /\ c \in {"e", "E"} -> "E"
      [] q = "E" /\ c \in {"+", "-"} -> "ESign"
      [] q \in {"E", "ESign", "Exp"} /\ IsAsciiDigit(c) -> "Exp"
      [] OTHER -> "Bad"

RECURSIVE F64Run(_, _, _)
F64Run(q, s, i) ==
    IF i > Len(s) THEN q ELSE F64Run(F64Next(q, s[i]), s, i + 1)

F64Special(s) ==
    LET body == IF s # <<>> /\ s[1] \in {"+", "-"} THEN Tail(s) ELSE s
    IN  body \in {<<"i", "n", "f">>, <<"n", "a", "n">>,
                  <<"i", "n", "f", "i", "n", "i", "t", "y">>}

ParseF64Ok(s) ==
    F64Run("Start", s, 1) \in {"Int", "IntDot", "Frac", "Exp"} \/ F64Special(s)

LITERALS ==
    {<<"t", "r", "u", "e">>, <<"f", "a", "l", "s", "e">>, <<"n", "u", "l", "l">>}

(***************************************************************************)
(* The completability oracle: "Complete", "Incomplete", or an error kind.  *)
(***************************************************************************)
\* variant: a text that goes on after a whole keyword is still Complete
is_non_valid_non_string_data_keyword_prefix(c, non_string_data_buffer) ==
    LET new_value == Append(non_string_data_buffer, c)
        first_char == new_value[1]
    IN  IF first_char \in {"t", "f", "n"}
        THEN IF \E lit \in LITERALS : IsPrefixOf(lit, new_value) THEN "Complete"
             ELSE IF \E lit \in LITERALS : IsPrefixOf(new_value, lit) THEN "Incomplete"
             ELSE "InvalidCharInLiteral"
        ELSE IF IsAsciiDigit(first_char) \/ first_char = "-"
        THEN IF ParseF64Ok(new_value) THEN "Complete" ELSE "InvalidCharInNumber"
        ELSE "InvalidNonStringDataFirstChar"

is_non_valid_non_string_data(c, non_string_data_buffer) ==
    LET new_value == Append(non_string_data_buffer, c)
        first_char == new_value[1]
        last_char == Last(new_value)
        prefix == Front(new_value)
    IN  IF first_char \in {"t", "f", "n"}
        THEN IF new_value \in LITERALS THEN "Complete"
             ELSE IF \E lit \in LITERALS : IsPrefixOf(new_value, lit) THEN "Incomplete"
             ELSE "InvalidCharInLiteral"
        ELSE IF IsAsciiDigit(first_char) \/ first_char = "-"
        THEN IF new_value = <<"-">> THEN "Incomplete"
             ELSE IF ParseF64Ok(new_value)
             THEN IF last_char = "." THEN "Incomplete" ELSE "Complete"
             ELSE IF /\ ParseF64Ok(prefix)
                     /\ last_char \in {"e", "E"}
                     /\ \A i \in 1..Len(prefix) : prefix[i] \notin {"e", "E"}
             THEN "Incomplete"
             ELSE IF /\ prefix # <<>>
                     /\ Last(prefix) \in {"e", "E"}
                     /\ last_char \in {"+", "-"}
                     /\ ParseF64Ok(Front(prefix))
             THEN "Incomplete"
             ELSE "InvalidCharInNumber"
        ELSE "InvalidNonStringDataFirstChar"

(***************************************************************************)
(* Structural handlers of the lexer.                                       *)
(***************************************************************************)
\* variant: a closing brace is taken after a separator comma
parse_brace_trailing_comma(brace, current_state) ==
    IF brace = "Open"
    THEN IF \/ current_state = Pending
            \/ current_state = BraceState("ExpectingValue")
            \/ current_state \in {BracketState("Empty"), BracketState("ExpectingValue")}
         THEN LexOk("OpenBrace", BraceState("Empty"))
         ELSE LexErr("UnexpectedOpenBrace", current_state)
    ELSE IF /\ current_state.ctx = "Brace"
            /\ \/ current_state.sub \in {"Empty", "ExpectingKey"}
               \/ IsStringValue(current_state, "Closed")
               \/ IsCompletableNonString(current_state)
         THEN LexOk("CloseBrace", InValueNonString("Brace", "Completable", <<>>))
         ELSE LexErr("UnexpectedCloseBrace", current_state)

parse_brace(brace, current_state) ==
    IF brace = "Open"
    THEN IF \/ current_state = Pending
            \/ current_state = BraceState("ExpectingValue")
            \/ current_state \in {BracketState("Empty"), BracketState("ExpectingValue")}
         THEN LexOk("OpenBrace", BraceState("Empty"))
         ELSE LexErr("UnexpectedOpenBrace", current_state)
    ELSE IF /\ current_state.ctx = "Brace"
            /\ \/ current_state.sub = "Empty"
               \/ IsStringValue(current_state, "Closed")
               \/ IsCompletableNonString(current_state)
         THEN LexOk("CloseBrace", InValueNonString("Brace", "Completable", <<>>))
         ELSE LexErr("UnexpectedCloseBrace", current_state)

parse_bracket(brace, current_state) ==
    IF brace = "Open"
    THEN IF \/ current_state = Pending
            \/ current_state = BraceState("ExpectingValue")
            \/ current_state = BracketState("ExpectingValue")
         THEN LexOk("OpenBracket", BracketState("Empty"))
         ELSE LexErr("UnexpectedOpenBracket", current_state)
    ELSE IF /\ current_state.ctx = "Bracket"
            /\ \/ current_state.sub = "Empty"
               \/ IsStringValue(current_state, "Closed")
               \/ IsCompletableNonString(current_state)
         THEN LexOk("CloseBracket", current_state)
         ELSE LexErr("UnexpectedCloseBracket", current_state)

\* variant: a colon before any container is passed over
parse_colon_top_level(current_state) ==
    CASE current_state = Pending ->
            LexOk("Colon", current_state)
      [] current_state.ctx = "Brace" /\ IsInKey(current_state, "Closed") ->
            LexOk("Colon", BraceState("ExpectingValue"))
      [] current_state.ctx = "Brace" /\ IsString(current_state, "Open") ->
            LexOk("OpenStringData", current_state)
      [] current_state.ctx = "Brace" /\ IsString(current_state, "Escaped") ->
            LexOk("OpenStringData", InKey("Open"))
      [] current_state.ctx = "Bracket" /\ IsStringValue(current_state, "Open") ->
            LexOk("OpenStringData", current_state)
      [] current_state.ctx = "Bracket" /\ IsStringValue(current_state, "Escaped") ->
            LexOk("OpenStringData", InValueString("Bracket", "Open"))
      [] OTHER -> LexErr("UnexpectedColon", current_state)

parse_colon(current_state) ==
    CASE current_state.ctx = "Brace" /\ IsInKey(current_state, "Closed") ->
            LexOk("Colon", BraceState("ExpectingValue"))
      [] current_state.ctx = "Brace" /\ IsString(current_state, "Open") ->
            LexOk("OpenStringData", current_state)
      [] current_state.ctx = "Brace" /\ IsString(current_state, "Escaped") ->
            LexOk("OpenStringData", InKey("Open"))
      [] current_state.ctx = "Bracket" /\ IsStringValue(current_state, "Open") ->
            LexOk("OpenStringData", current_state)
      [] current_state.ctx = "Bracket" /\ IsStringValue(current_state, "Escaped") ->
            LexOk("OpenStringData", InValueString("Bracket", "Open"))
      [] OTHER -> LexErr("UnexpectedColon", current_state)

parse_comma(current_state) ==
    CASE /\ current_state.ctx = "Brace"
         /\ (IsStringValue(current_state, "Closed") \/ IsCompletableNonString(current_state)) ->
            LexOk("Comma", BraceState("ExpectingKey"))
      [] /\ current_state.ctx = "Bracket"
         /\ (IsStringValue(current_state, "Closed") \/ IsCompletableNonString(current_state)) ->
            LexOk("Comma", BracketState("ExpectingValue"))
      [] IsString(current_state, "Open") ->
            LexOk("OpenStringData", current_state)
      [] IsString(current_state, "Escaped") ->
            LexOk("OpenStringData", WithStringState(current_state, "Open"))
      [] OTHER -> LexErr("UnexpectedComma", current_state)

(***************************************************************************)
(* Quote and escape handlers.                                              *)
(***************************************************************************)
parse_quote_char(st) ==
    CASE st \in {BraceState("Empty"), BraceState("ExpectingKey")} ->
            LexOk("OpenKey", InKey("Open"))
      [] st = BraceState("ExpectingValue") ->
            LexOk("OpenStringData", InValueString("Brace", "Open"))
      [] st \in {BracketState("Empty"), BracketState("ExpectingValue")} ->
            LexOk("OpenStringData", InValueString("Bracket", "Open"))
      [] IsInKey(st, "Open") -> LexOk("CloseKey", WithStringState(st, "Closed"))
      [] IsInKey(st, "Escaped") -> LexOk("OpenStringData", WithStringState(st, "Open"))
      [] IsInKey(st, "Closed") -> LexErr("QuoteCharAfterKeyClose", st)
      [] IsStringValue(st, "Open") -> LexOk("CloseStringData", WithStringState(st, "Closed"))
      [] IsStringValue(st, "Escaped") -> LexOk("OpenStringData", WithStringState(st, "Open"))
      [] IsStringValue(st, "Closed") -> LexErr("QuoteCharAfterValueClose", st)
      [] IsNonString(st) -> LexErr("QuoteCharInNonStringData", st)
      [] OTHER -> LexErr("UnexpectedQuoteChar", st)

set_string_state_after_escape_in_place(st, next) ==
    IF IsString(st, "Open")
    THEN [done |-> TRUE, st |-> WithStringState(st, next)]
    ELSE [done |-> FALSE, st |-> st]

set_string_state_from_escaped_in_place(st, next) ==
    IF IsString(st, "Escaped")
    THEN [done |-> TRUE, st |-> WithStringState(st, next)]
    ELSE [done |-> FALSE, st |-> st]

\* variant: the backslash is accepted but the string is left Open
handle_escape_stays_open(current_state) ==
    IF IsString(current_state, "Open")
    THEN LexOk("OpenStringData", current_state)
    ELSE LexErr("UnexpectedEscape", current_state)

handle_escape(current_state) ==
    LET r == set_string_state_after_escape_in_place(current_state, "Escaped")
    IN  IF r.done THEN LexOk("OpenStringData", r.st)
        ELSE LexErr("UnexpectedEscape", r.st)

SIMPLE_ESCAPES == {"\"", "\\", "/", "b", "f", "n", "r", "t"}

handle_escaped_char(escaped, current_state) ==
    IF escaped = "u"
    THEN LET r == set_string_state_from_escaped_in_place(current_state, "Escaped")
         IN  IF r.done THEN LexOk("OpenStringData", r.st)
             ELSE LexErr("UnexpectedEscape", r.st)
    ELSE IF escaped \in SIMPLE_ESCAPES
    THEN LET r == set_string_state_from_escaped_in_place(current_state, "Open")
         IN  IF r.done THEN LexOk("OpenStringData", r.st)
             ELSE LexErr("UnexpectedEscape", r.st)
    ELSE LexErr("InvalidCharEncountered", current_state)

(***************************************************************************)
(* Data handlers.                                                          *)
(***************************************************************************)
is_string_data(st) == IsString(st, "Open") \/ IsString(st, "Escaped")

parse_string_data(st) ==
    CASE IsString(st, "Open") -> LexOk("StringContent", st)
      [] IsString(st, "Escaped") -> LexOk("StringContent", WithStringState(st, "Open"))
      [] OTHER -> LexErr("TokenParseErrorMisc", st)

is_non_string_start(c) == IsAsciiDigit(c) \/ c = "-" \/ c \in {"n", "t", "f"}

is_non_string_data(c, st) ==
    CASE st \in {BraceState("ExpectingValue"), BracketState("Empty"),
                 BracketState("ExpectingValue")} -> is_non_string_start(c)
      [] IsNonString(st) -> TRUE
      [] OTHER -> FALSE

\* variant: a character the oracle rejects is not kept in the buffer
parse_non_string_data_rollback(c, st) ==
    CASE st \in {BraceState("ExpectingValue"), BracketState("Empty"),
                 BracketState("ExpectingValue")} ->
            LexOk("NonStringData",
                  InValueNonString(st.ctx,
                                   IF c = "-" THEN "NonCompletable" ELSE "Completable",
                                   <<c>>))
      [] IsNonString(st) ->
            LET status == is_non_valid_non_string_data(c, st.buf)
                buffer == Append(st.buf, c)
                ns_state == InValueNonString(st.ctx,
                                IF status = "Complete" THEN "Completable"
                                ELSE "NonCompletable",
                                buffer)
            IN  IF status \in {"Complete", "Incomplete"}
                THEN LexOk("NonStringData", ns_state)
                ELSE LexErr(status, st)
      [] OTHER -> LexErr("UnexpectedCharInNonStringData", st)

parse_non_string_data(c, st) ==
    CASE st \in {BraceState("ExpectingValue"), BracketState("Empty"),
                 BracketState("ExpectingValue")} ->
            LexOk("NonStringData",
                  InValueNonString(st.ctx,
                                   IF c = "-" THEN "NonCompletable" ELSE "Completable",
                                   <<c>>))
      [] IsNonString(st) ->
            LET status == is_non_valid_non_string_data(c, st.buf)
                buffer == Append(st.buf, c)
                ns_state == InValueNonString(st.ctx,
                                IF status = "Complete" THEN "Completable"
                                ELSE "NonCompletable",
                                buffer)
            IN  IF status \in {"Complete", "Incomplete"}
                THEN LexOk("NonStringData", ns_state)
                ELSE LexErr(status, ns_state)
      [] OTHER -> LexErr("UnexpectedCharInNonStringData", st)

(***************************************************************************)
(* The dispatcher.                                                         *)
(***************************************************************************)
parse_char(c, st) ==
    LET in_completable ==
            \/ IsStringValue(st, "Closed")
            \/ IsCompletableNonString(st)
            \/ (st.sub = "InValue" /\ st.val = "NestedValueCompleted")
    IN  IF IsString(st, "Escaped") THEN handle_escaped_char(c, st)
        ELSE IF c = "\\" THEN handle_escape(st)
        ELSE IF c = "\"" THEN parse_quote_char(st)
        ELSE IF in_completable /\ c = "," THEN parse_comma(st)
        ELSE IF in_completable /\ c = "}" THEN parse_brace("Close", st)
        ELSE IF in_completable /\ c = "]" THEN parse_bracket("Close", st)
        ELSE IF is_string_data(st) THEN parse_string_data(st)
        ELSE IF is_non_string_data(c, st) THEN parse_non_string_data(c, st)
        ELSE CASE c = "{" -> parse_brace("Open", st)
               [] c = "}" -> parse_brace("Close", st)
               [] c = "[" -> parse_bracket("Open", st)
               [] c = "]" -> parse_bracket("Close", st)
               [] c = ":" -> parse_colon(st)
               [] c = "," -> parse_comma(st)
               [] IsWhitespace(c) -> LexOk("Whitespace", st)
               [] OTHER -> LexErr("InvalidCharEncountered", st)

(***************************************************************************)
(* The container stack manager.                                            *)
(***************************************************************************)
\* StructuralToken::try_from: the tokens that are not NonStringData, Comma,
\* Colon, Whitespace (or the content token of parse_string_data).
IsStructuralToken(token) ==
    token \in {"OpenBrace", "CloseBrace", "OpenBracket", "CloseBracket",
               "OpenKey", "CloseKey", "OpenStringData", "CloseStringData"}

IsOpeningToken(token) ==
    token \in {"OpenBrace", "OpenBracket", "OpenKey", "OpenStringData"}

get_closing_token(token) ==
    CASE token = "OpenBrace" -> "CloseBrace"
      [] token = "OpenBracket" -> "CloseBracket"
      [] token = "OpenKey" -> "CloseKey"
      [] token = "OpenStringData" -> "CloseStringData"

get_char(closing_token) ==
    CASE closing_token = "CloseBrace" -> "}"
      [] closing_token = "CloseBracket" -> "]"
      [] closing_token = "CloseKey" -> "\""
      [] closing_token = "CloseStringData" -> "\""

\* variant: a closing token pops the top entry without comparing
modify_stack_unchecked(stack, token) ==
    IF ~IsStructuralToken(token)
    THEN [res |-> "NotAStructuralToken", stack |-> stack]
    ELSE IF IsOpeningToken(token)
    THEN [res |-> "Ok", stack |-> Append(stack, get_closing_token(token))]
    ELSE IF stack = <<>>
    THEN [res |-> "CorruptedStackEmptyOnClose", stack |-> stack]
    ELSE [res |-> "Ok", stack |-> Front(stack)]

modify_stack(stack, token) ==
    IF ~IsStructuralToken(token)
    THEN [res |-> "NotAStructuralToken", stack |-> stack]
    ELSE IF IsOpeningToken(token)
    THEN [res |-> "Ok", stack |-> Append(stack, get_closing_token(token))]
    ELSE IF stack = <<>>
    THEN [res |-> "CorruptedStackEmptyOnClose", stack |-> stack]
    ELSE IF token = Last(stack)
    THEN [res |-> "Ok", stack |-> Front(stack)]
    ELSE [res |-> "CorruptedStackMismatchedTokens", stack |-> stack]

(***************************************************************************)
(* The completion synthesizer.                                             *)
(***************************************************************************)
\* variant: an open string value is not taken as closable
is_cleanly_closable_closed_only(st) ==
    \/ st = Pending
    \/ st = BraceState("Empty")
    \/ st = BracketState("Empty")
    \/ IsStringValue(st, "Closed")
    \/ IsCompletableNonString(st)

is_cleanly_closable(st) ==
    \/ st = Pending
    \/ st = BraceState("Empty")
    \/ st = BracketState("Empty")
    \/ IsStringValue(st, "Closed")
    \/ IsStringValue(st, "Open")
    \/ IsCompletableNonString(st)

Reverse(s) == [i \in 1..Len(s) |-> s[Len(s) + 1 - i]]

RetOk(text) == [kind |-> "Ok", val |-> text]

RetUnit == [kind |-> "Unit", val |-> <<>>]

RetErr(e) == [kind |-> e, val |-> <<>>]

\* variant: the closers are emitted bottom of the stack first
get_balancing_chars_unreversed(stack, st) ==
    IF ~is_cleanly_closable(st)
    THEN RetErr("NotClosable")
    ELSE RetOk([i \in 1..Len(stack) |-> get_char(stack[i])])

get_balancing_chars(stack, st) ==
    IF ~is_cleanly_closable(st)
    THEN RetErr("NotClosable")
    ELSE RetOk([i \in 1..Len(stack) |-> get_char(Reverse(stack)[i])])

(***************************************************************************)
(* The engine facade.                                                      *)
(***************************************************************************)
\* PopLevelToken::try_from succeeds for the two container-closing tokens.
IsPopLevelToken(token) == token \in {"CloseBrace", "CloseBracket"}

\* variant: no arm for the stack left empty by the pop
handle_pop_state_transition_no_pending(st, stack, token) ==
    IF ~IsPopLevelToken(token) \/ stack = <<>> THEN st
    ELSE IF Last(stack) = "CloseBrace"
    THEN InValueNonString("Brace", "Completable", <<>>)
    ELSE IF Last(stack) = "CloseBracket"
    THEN InValueNonString("Bracket", "Completable", <<>>)
    ELSE st

handle_pop_state_transition(st, stack, token) ==
    IF ~IsPopLevelToken(token) THEN st
    ELSE IF stack = <<>> THEN Pending
    ELSE IF Last(stack) = "CloseBrace"
    THEN InValueNonString("Brace", "Completable", <<>>)
    ELSE IF Last(stack) = "CloseBracket"
    THEN InValueNonString("Bracket", "Completable", <<>>)
    ELSE st

Balancer(st, stack, corrupted) ==
    [state |-> st, closing_stack |-> stack, is_corrupted |-> corrupted]

\* variant: only the first character of the fragment is looked at
RECURSIVE add_delta_loop_first_only(_, _, _)
add_delta_loop_first_only(b, delta, i) ==
    IF i > Len(delta) \/ i > 1
    THEN [b |-> b, ret |-> RetUnit, examined |-> Len(delta)]
    ELSE LET lex == parse_char(delta[i], b.state)
             ms == modify_stack(b.closing_stack, lex.tok)
         IN  IF ~lex.ok
             THEN [b |-> Balancer(lex.st, b.closing_stack, TRUE),
                   ret |-> RetErr("Corrupted"), examined |-> i]
             ELSE IF ms.res = "NotAStructuralToken"
             THEN add_delta_loop_first_only(Balancer(lex.st, b.closing_stack, FALSE),
                                            delta, i + 1)
             ELSE IF ms.res # "Ok"
             THEN [b |-> Balancer(lex.st, ms.stack, TRUE),
                   ret |-> RetErr("Corrupted"), examined |-> i]
             ELSE add_delta_loop_first_only(
                      Balancer(handle_pop_state_transition(lex.st, ms.stack, lex.tok),
                               ms.stack, FALSE),
                      delta, i + 1)

\* variant: the lexical error is handed to the caller as it is
RECURSIVE add_delta_loop_raw_error(_, _, _)
add_delta_loop_raw_error(b, delta, i) ==
    IF i > Len(delta)
    THEN [b |-> b, ret |-> RetUnit, examined |-> Len(delta)]
    ELSE LET lex == parse_char(delta[i], b.state)
             ms == modify_stack(b.closing_stack, lex.tok)
         IN  IF ~lex.ok
             THEN [b |-> Balancer(lex.st, b.closing_stack, TRUE),
                   ret |-> RetErr(lex.tok), examined |-> i]
             ELSE IF ms.res = "NotAStructuralToken"
             THEN add_delta_loop_raw_error(Balancer(lex.st, b.closing_stack, FALSE),
                                           delta, i + 1)
             ELSE IF ms.res # "Ok"
             THEN [b |-> Balancer(lex.st, ms.stack, TRUE),
                   ret |-> RetErr("Corrupted"), examined |-> i]
             ELSE add_delta_loop_raw_error(
                      Balancer(handle_pop_state_transition(lex.st, ms.stack, lex.tok),
                               ms.stack, FALSE),
                      delta, i + 1)

\* variant: a lexer error is reported without latching the flag
RECURSIVE add_delta_loop_unlatched(_, _, _)
add_delta_loop_unlatched(b, delta, i) ==
    IF i > Len(delta)
    THEN [b |-> b, ret |-> RetUnit, examined |-> Len(delta)]
    ELSE LET lex == parse_char(delta[i], b.state)
             ms == modify_stack(b.closing_stack, lex.tok)
         IN  IF ~lex.ok
             THEN [b |-> Balancer(lex.st, b.closing_stack, FALSE),
                   ret |-> RetErr("Corrupted"), examined |-> i]
             ELSE IF ms.res = "NotAStructuralToken"
             THEN add_delta_loop_unlatched(Balancer(lex.st, b.closing_stack, FALSE),
                                           delta, i + 1)
             ELSE IF ms.res # "Ok"
             THEN [b |-> Balancer(lex.st, ms.stack, TRUE),
                   ret |-> RetErr("Corrupted"), examined |-> i]
             ELSE add_delta_loop_unlatched(
                      Balancer(handle_pop_state_transition(lex.st, ms.stack, lex.tok),
                               ms.stack, FALSE),
                      delta, i + 1)

\* The for loop of add_delta from character i on: the balancer it leaves,
\* the value add_delta returns, and the number of characters handed to
\* parse_char.
RECURSIVE add_delta_loop(_, _, _)
add_delta_loop(b, delta, i) ==
    IF i > Len(delta)
    THEN [b |-> b, ret |-> RetUnit, examined |-> Len(delta)]
    ELSE LET lex == parse_char(delta[i], b.state)
             ms == modify_stack(b.closing_stack, lex.tok)
         IN  IF ~lex.ok
             THEN [b |-> Balancer(lex.st, b.closing_stack, TRUE),
                   ret |-> RetErr("Corrupted"), examined |-> i]
             ELSE IF ms.res = "NotAStructuralToken"
             THEN add_delta_loop(Balancer(lex.st, b.closing_stack, FALSE), delta, i + 1)
             ELSE IF ms.res # "Ok"
             THEN [b |-> Balancer(lex.st, ms.stack, TRUE),
                   ret |-> RetErr("Corrupted"), examined |-> i]
             ELSE add_delta_loop(
                      Balancer(handle_pop_state_transition(lex.st, ms.stack, lex.tok),
                               ms.stack, FALSE),
                      delta, i + 1)

\* variant: the non-string buffer does not outlive the fragment
add_delta_buffer_per_fragment(b, delta) ==
    IF b.is_corrupted
    THEN [b |-> b, ret |-> RetErr("Corrupted"), examined |-> 0]
    ELSE add_delta_loop([b EXCEPT !.state.buf = <<>>], delta, 1)

\* variant: a pending escape does not outlive the fragment
add_delta_escape_per_fragment(b, delta) ==
    IF b.is_corrupted
    THEN [b |-> b, ret |-> RetErr("Corrupted"), examined |-> 0]
    ELSE add_delta_loop(
             [b EXCEPT !.state = IF IsString(@, "Escaped")
                                 THEN WithStringState(@, "Open") ELSE @],
             delta, 1)

\* variant: a fragment that corrupts the engine leaves the state and the
\* stack as they were before the fragment
add_delta_whole_or_nothing(b, delta) ==
    IF b.is_corrupted
    THEN [b |-> b, ret |-> RetErr("Corrupted"), examined |-> 0]
    ELSE LET r == add_delta_loop(b, delta, 1)
         IN  IF r.b.is_corrupted
             THEN [r EXCEPT !.b = Balancer(b.state, b.closing_stack, TRUE)]
             ELSE r

\* variant: no early return on a corrupted balancer
add_delta_no_guard(b, delta) == add_delta_loop(b, delta, 1)

add_delta(b, delta) ==
    IF b.is_corrupted
    THEN [b |-> b, ret |-> RetErr("Corrupted"), examined |-> 0]
    ELSE add_delta_loop(b, delta, 1)

\* variant: the flag is not consulted
get_completion_no_guard(b) == get_balancing_chars(b.closing_stack, b.state)

get_completion(b) ==
    IF b.is_corrupted
    THEN RetErr("Corrupted")
    ELSE get_balancing_chars(b.closing_stack, b.state)

\* variant: the completion is computed on the balancer as it was before
\* the fragment
process_delta_stale(b, delta) ==
    LET a == add_delta(b, delta)
    IN  IF a.ret.kind # "Unit"
        THEN a
        ELSE [a EXCEPT !.ret = get_completion(b)]

process_delta(b, delta) ==
    LET a == add_delta(b, delta)
    IN  IF a.ret.kind # "Unit"
        THEN a
        ELSE [a EXCEPT !.ret = get_completion(a.b)]

(***************************************************************************)
(* Reference JSON grammar (RFC 8259 syntax, the document being an object   *)
(* or an array), as a deterministic pushdown recogniser.  A configuration  *)
(* is the position in the grammar, its detail (number automaton state,     *)
(* keyword letters, hex digits of a \u escape), and the open containers.   *)
(* A text is a prefix of a valid document iff its configuration is not     *)
(* "Dead", and a valid complete document iff its position is "Done".  A    *)
(* dead configuration keeps why the text was rejected: "trailing" for text *)
(* after the document, "comma" for a closing delimiter after a separator   *)
(* comma, "mismatch" for a closing delimiter of the wrong kind, "syntax"   *)
(* otherwise.                                                              *)
(***************************************************************************)
Ref(pos, aux, stk) == [pos |-> pos, aux |-> aux, stk |-> stk]

RefDead(why) == Ref("Dead", <<why>>, <<>>)

RefHexDigits ==
    {"0", "1", "2", "3", "4", "5", "6", "7", "8", "9",
     "a", "b", "c", "d", "e", "f", "A", "B", "C", "D", "E", "F"}

RefEscapes == {"\"", "\\", "/", "b", "f", "n", "r", "t"}

RefNumNext(q, c) ==
    CASE q = "Minus" /\ c = "0" -> "Zero"
      [] q \in {"Minus", "Int"} /\ IsAsciiDigit(c) -> "Int"
      [] q \in {"Zero", "Int"} /\ c = "." -> "Dot"
      [] q \in {"Dot", "Frac"} /\ IsAsciiDigit(c) -> "Frac"
      [] q \in {"Zero", "Int", "Frac"} /\ c \in {"e", "E"} -> "E"
      [] q = "E" /\ c \in {"+", "-"} -> "ESign"
      [] q \in {"E", "ESign", "Exp"} /\ IsAsciiDigit(c) -> "Exp"
      [] OTHER -> "Bad"

RefNumComplete(q) == q \in {"Zero", "Int", "Frac", "Exp"}

RefClose(r) ==
    LET rest == Front(r.stk)
    IN  Ref(IF rest = <<>> THEN "Done" ELSE "AfterVal", <<>>, rest)

\* the configuration after a complete value, reading c
RefAfterVal(r, c) ==
    CASE c = " " -> Ref("AfterVal", <<>>, r.stk)
      [] c = "," -> Ref(IF Last(r.stk) = "O" THEN "ExpKey" ELSE "ExpVal", <<>>, r.stk)
      [] c = "}" /\ Last(r.stk) = "O" -> RefClose(r)
      [] c = "]" /\ Last(r.stk) = "A" -> RefClose(r)
      [] OTHER -> RefDead("syntax")

\* the configuration where a value may start, reading c
RefValueStart(r, c) ==
    CASE c = " " -> r
      [] c = "{" -> Ref("ObjEmpty", <<>>, Append(r.stk, "O"))
      [] c = "[" -> Ref("ArrEmpty", <<>>, Append(r.stk, "A"))
      [] c = "\"" -> Ref("Str", <<>>, r.stk)
      [] c = "-" -> Ref("Num", <<"Minus">>, r.stk)
      [] c = "0" -> Ref("Num", <<"Zero">>, r.stk)
      [] IsAsciiDigit(c) /\ c # "0" -> Ref("Num", <<"Int">>, r.stk)
      [] c \in {"t", "f", "n"} -> Ref("Lit", <<c>>, r.stk)
      [] c = "]" /\ r.pos = "ArrEmpty" -> RefClose(r)
      [] c \in {"}", "]"} /\ r.pos = "ExpVal" /\ Last(r.stk) = "A" -> RefDead("comma")
      [] OTHER -> RefDead("syntax")

\* c is the closing delimiter of the other kind of container than the
\* innermost open one, read outside a string (after a separator comma the
\* rejection is recorded as "comma")
RefMismatch(r, c) ==
    /\ r.stk # <<>>
    /\ r.pos \in {"ObjEmpty", "ArrEmpty", "AfterKey", "ExpVal", "Num", "Lit", "AfterVal"}
    /\ ~(r.pos = "ExpVal" /\ Last(r.stk) = "A")
    /\ c = (IF Last(r.stk) = "A" THEN "}" ELSE "]")

RefStep(r, c) ==
    CASE r.pos = "Dead" -> r
      [] r.pos # "Dead" /\ RefMismatch(r, c) -> RefDead("mismatch")
      [] r.pos = "Start" ->
            IF c = " " THEN r
            ELSE IF c = "{" THEN Ref("ObjEmpty", <<>>, <<"O">>)
            ELSE IF c = "[" THEN Ref("ArrEmpty", <<>>, <<"A">>)
            ELSE RefDead("syntax")
      [] r.pos = "Done" ->
            IF c = " " THEN r ELSE RefDead("trailing")
      [] r.pos \in {"ObjEmpty", "ExpKey"} ->
            IF c = " " THEN r
            ELSE IF c = "\"" THEN Ref("Key", <<>>, r.stk)
            ELSE IF c = "}" /\ r.pos = "ObjEmpty" THEN RefClose(r)
            ELSE IF c \in {"}", "]"} /\ r.pos = "ExpKey" THEN RefDead("comma")
            ELSE RefDead("syntax")
      [] r.pos \in {"Key", "Str"} ->
            IF c = "\"" THEN Ref(IF r.pos = "Key" THEN "AfterKey" ELSE "AfterVal", <<>>, r.stk)
            ELSE IF c = "\\" THEN Ref(IF r.pos = "Key" THEN "KeyEsc" ELSE "StrEsc", <<>>, r.stk)
            ELSE r
      [] r.pos \in {"KeyEsc", "StrEsc"} ->
            IF c \in RefEscapes
            THEN Ref(IF r.pos = "KeyEsc" THEN "Key" ELSE "Str", <<>>, r.stk)
            ELSE IF c = "u"
            THEN Ref(IF r.pos = "KeyEsc" THEN "KeyHex" ELSE "StrHex", <<>>, r.stk)
            ELSE RefDead("syntax")
      [] r.pos \in {"KeyHex", "StrHex"} ->
            IF c \notin RefHexDigits THEN RefDead("syntax")
            ELSE IF Len(r.aux) < 3 THEN Ref(r.pos, Append(r.aux, c), r.stk)
            ELSE Ref(IF r.pos = "KeyHex" THEN "Key" ELSE "Str", <<>>, r.stk)
      [] r.pos = "AfterKey" ->
            IF c = " " THEN r
            ELSE IF c = ":" THEN Ref("ExpVal", <<>>, r.stk)
            ELSE RefDead("syntax")
      [] r.pos \in {"ExpVal", "ArrEmpty"} -> RefValueStart(r, c)
      [] r.pos = "Num" ->
            IF RefNumNext(r.aux[1], c) # "Bad"
            THEN Ref("Num", <<RefNumNext(r.aux[1], c)>>, r.stk)
            ELSE IF RefNumComplete(r.aux[1]) THEN RefAfterVal(r, c)
            ELSE RefDead("syntax")
      [] r.pos = "Lit" ->
            IF Append(r.aux, c) \in LITERALS THEN Ref("AfterVal", <<>>, r.stk)
            ELSE IF \E lit \in LITERALS : IsPrefixOf(Append(r.aux, c), lit)
            THEN Ref("Lit", Append(r.aux, c), r.stk)
            ELSE RefDead("syntax")
      [] r.pos = "AfterVal" -> RefAfterVal(r, c)

RECURSIVE RefRun(_, _, _)
RefRun(r, text, i) ==
    IF i > Len(text) THEN r ELSE RefRun(RefStep(r, text[i]), text, i + 1)

\* the text read so far, followed by suffix, is a valid complete document
RefAccepts(r, suffix) ==
    LET q == RefRun(r, suffix, 1)
    IN  q.pos = "Done"

(***************************************************************************)
(* The state machine.                                                      *)
(***************************************************************************)
Self == Balancer(state, closing_stack, is_corrupted)

Init ==
    /\ state = Pending
    /\ closing_stack = <<>>
    /\ is_corrupted = FALSE
    /\ op = "new"
    /\ ret = RetUnit
    /\ ref = Ref("Start", <<>>, <<>>)
    /\ seenCorrupted = FALSE
    /\ preCorrupted = FALSE

WithinBounds(b) ==
    /\ Len(b.closing_stack) <= MaxDepth
    /\ Len(b.state.buf) <= MaxBuf

Advance(r, delta, name) ==
    /\ WithinBounds(r.b)
    /\ state' = r.b.state
    /\ closing_stack' = r.b.closing_stack
    /\ is_corrupted' = r.b.is_corrupted
    /\ op' = name
    /\ ret' = r.ret
    /\ ref' = RefRun(ref, SubSeq(delta, 1, r.examined), 1)
    /\ seenCorrupted' = (seenCorrupted \/ r.ret.kind = "Corrupted")
    /\ preCorrupted' = is_corrupted

AddDelta(delta) == Advance(add_delta(Self, delta), delta, "add_delta")

ProcessDelta(delta) == Advance(process_delta(Self, delta), delta, "process_delta")

GetCompletion ==
    /\ op' = "get_completion"
    /\ ret' = get_completion(Self)
    /\ preCorrupted' = is_corrupted
    /\ UNCHANGED <<state, closing_stack, is_corrupted, ref, seenCorrupted>>

Next ==
    \/ \E delta \in Fragments : AddDelta(delta)
    \/ \E delta \in Fragments : ProcessDelta(delta)
    \/ GetCompletion

Spec == Init /\ [][Next]_vars

\* The engine up to and including its first corruption: the same steps, taken
\* only while the flag is clear. A corrupted engine never leaves corruption,
\* so the non-corrupted states of Spec, and the states in which Spec's
\* engine first finds itself corrupted, are exactly those of this
\* specification.
NextUntilCorrupted ==
    \/ \E delta \in Fragments : ~is_corrupted /\ AddDelta(delta)
    \/ \E delta \in Fragments : ~is_corrupted /\ ProcessDelta(delta)
    \/ ~is_corrupted /\ GetCompletion

SpecUntilCorrupted == Init /\ [][NextUntilCorrupted]_vars

\* The engine writing numbers and keywords into one array, a character at a
\* time: every letter of true, false and null, two digits, the characters of
\* a number, one character of neither, and the array's own delimiters.
MaxScalar == 5   \* longest number or keyword text explored by SpecScalars

ScalarAlphabet ==
    {"[", "]", ",", " ", "t", "r", "u", "e", "f", "a", "l", "s", "n",
     "0", "1", "-", "+", ".", "E", "x"}

ScalarChar(c) ==
    LET r == add_delta(Self, <<c>>)
    IN  /\ Len(r.b.closing_stack) <= 1
        /\ Len(r.b.state.buf) <= MaxScalar
        /\ state' = r.b.state
        /\ closing_stack' = r.b.closing_stack
        /\ is_corrupted' = r.b.is_corrupted
        /\ op' = "add_delta"
        /\ ret' = r.ret
        /\ ref' = RefRun(ref, SubSeq(<<c>>, 1, r.examined), 1)
        /\ seenCorrupted' = (seenCorrupted \/ r.ret.kind = "Corrupted")
        /\ preCorrupted' = is_corrupted

NextScalars ==
    \/ \E c \in ScalarAlphabet : ScalarChar(c)
    \/ GetCompletion

SpecScalars == Init /\ [][NextScalars]_vars

TypeOK ==
    /\ state.ctx \in {"Pending", "Brace", "Bracket"}
    /\ closing_stack \in Seq({"CloseBrace", "CloseBracket", "CloseKey", "CloseStringData"})
    /\ is_corrupted \in BOOLEAN
    /\ ret.kind \in {"Unit", "Ok", "NotClosable", "Corrupted"}

(***************************************************************************)
(* Properties.                                                             *)
(***************************************************************************)
Queried == op \in {"get_completion", "process_delta"}

Advanced == op \in {"add_delta", "process_delta"}

\* C1: once an add_delta / process_delta has returned Corrupted, every later
\* get_completion and every later process_delta, whatever the fragment,
\* returns Corrupted.
C1_StickyCorruption ==
    [][(seenCorrupted /\ op' \in {"get_completion", "process_delta"})
          => ret'.kind = "Corrupted"]_vars

\* a completion query answered Corrupted after an earlier advance was
C1_Witness ==
    seenCorrupted /\ preCorrupted /\ op = "process_delta" /\ ret.kind = "Corrupted"

\* C2: whenever process_delta / get_completion returns Ok(S) after some
\* non-blank input, the input followed by S is a valid complete JSON
\* document under the reference grammar.  (Blank input, for which Ok("") is
\* prescribed, is left aside.)
C2_RoundTrip ==
    (Queried /\ ret.kind = "Ok" /\ ref.pos # "Start") => RefAccepts(ref, ret.val)

\* C3: after the engine has been given a valid complete document followed
\* by any run of whitespace, the completion is Ok("").
C3_CompleteDocumentGivesEmptySuffix ==
    (Queried /\ ref.pos = "Done") => ret = RetOk(<<>>)

\* C4: after the engine has been given a valid complete document followed
\* by a non-whitespace character, the outcome is Corrupted.
C4_TrailingContentCorrupts ==
    (ref.pos = "Dead" /\ ref.aux = <<"trailing">>)
        => (is_corrupted /\ ret.kind = "Corrupted")

\* C5: a text that is a prefix of some valid JSON document never sets the
\* corruption flag.
C5_ValidPrefixNeverCorrupted ==
    ref.pos # "Dead" => ~is_corrupted

\* C6: whenever the engine is not corrupted, the text consumed is a prefix
\* of some valid JSON document.
C6_UncorruptedIsValidPrefix ==
    ~is_corrupted => ref.pos # "Dead"

\* C7: once the corruption flag is set, an advance (add_delta, alone or
\* inside process_delta) with any fragment leaves the JSONState, the stack
\* and the flag unchanged.
C7_CorruptedIsFrozen ==
    [][(is_corrupted /\ op' \in {"add_delta", "process_delta"})
          => (state' = state /\ closing_stack' = closing_stack /\ is_corrupted')]_vars

\* an advance ran on a balancer that was corrupted by an earlier call
C7_Witness ==
    preCorrupted /\ is_corrupted /\ op = "add_delta" /\ closing_stack # <<>>

\* C8: the flag is set iff some earlier advance returned Corrupted; an
\* advance that returns Corrupted leaves the flag set, and one that returns
\* success or NotClosable leaves it clear.
C8_FlagPolicy ==
    /\ is_corrupted <=> seenCorrupted
    /\ Advanced => (ret.kind = "Corrupted" <=> is_corrupted)

\* an advance returned Corrupted and the flag is set
C8_Witness ==
    op = "add_delta" /\ ret.kind = "Corrupted" /\ is_corrupted /\ seenCorrupted

\* the states C9 lists as closable
C9_ListedClosable(st) ==
    \/ st = Pending
    \/ st \in {BraceState("Empty"), BracketState("Empty")}
    \/ /\ st.ctx \in {"Brace", "Bracket"}
       /\ st.sub = "InValue"
       /\ \/ st.val = "String" /\ st.tag \in {"Open", "Closed"}
          \/ st.val = "NonString" /\ st.tag = "Completable"
          \/ st.val = "NestedValueCompleted"

\* the states C9 lists as not closable
C9_ListedNotClosable(st) ==
    \/ st \in {BraceState("ExpectingKey"), BraceState("ExpectingValue"),
               BracketState("ExpectingValue")}
    \/ st.sub = "InKey"
    \/ st.sub = "InValue" /\ st.val = "String" /\ st.tag = "Escaped"
    \/ st.sub = "InValue" /\ st.val = "NonString" /\ st.tag = "NonCompletable"

C10_Closer(marker) ==
    IF marker = "CloseBrace" THEN "}"
    ELSE IF marker = "CloseBracket" THEN "]"
    ELSE "\""

C11_OpenCount ==
    Len(ref.stk)
        + (IF ref.pos \in {"Key", "Str", "KeyEsc", "StrEsc", "KeyHex", "StrHex"}
           THEN 1 ELSE 0)

\* C11: in every non-corrupted state (the consumed text being a prefix of a
\* document, so that its nesting is defined), the stack depth is the number
\* of open containers plus one if the text ends inside an unclosed string.
C11_DepthMatchesNesting ==
    (~is_corrupted /\ ref.pos # "Dead") => Len(closing_stack) = C11_OpenCount

\* C12: in every non-corrupted state, the JSONState is Pending if and only
\* if the stack is empty.
C12_PendingIffEmptyStack ==
    ~is_corrupted => (state = Pending <=> closing_stack = <<>>)

\* the top-level container has just closed: Pending again, stack empty
C12_Witness ==
    /\ Advanced /\ ~is_corrupted /\ ref.pos = "Done"
    /\ state = Pending /\ closing_stack = <<>>

\* text after which a string left at \u is closable again: four hexadecimal
\* digits for a string value; for a key, the rest of the member as well
C13_Later ==
    {<<"b", "b", "b", "b">>, <<"b", "b", "b", "b", "\"", ":", "1">>}

\* C13: when u arrives while a string (key or value) is Escaped, the
\* outcome is NotClosable, the string stays Escaped, the corruption flag
\* stays clear, and some later text leads to an Ok outcome.
C13_UnicodeEscapeNotClosable ==
    (~is_corrupted /\ IsString(state, "Escaped")) =>
        LET r == process_delta(Self, <<"u">>)
        IN  /\ r.ret.kind = "NotClosable"
            /\ r.b.state = state
            /\ ~r.b.is_corrupted
            /\ \E later \in C13_Later : process_delta(r.b, later).ret.kind = "Ok"

\* a key's marker lies under the markers its escapes have pushed
C13_KeyMarkerBuried ==
    \E i \in 1..(Len(closing_stack) - 1) : closing_stack[i] = "CloseKey"

\* once a key's marker is buried the engine stays inside that key, which is
\* not closable, or is corrupted: no later text leads to an Ok outcome
C13_BuriedKeyNeverCloses ==
    C13_KeyMarkerBuried => (is_corrupted \/ state.sub = "InKey")

C13_BuriedKeyStaysBuried ==
    [][C13_KeyMarkerBuried => C13_KeyMarkerBuried']_vars

\* C14: whenever a completion is asked with a string (key or value) left
\* Escaped, it is never Ok, and NotClosable unless the engine is corrupted;
\* a backslash arriving inside an open string value gives NotClosable,
\* leaves the string Escaped and the corruption flag clear.
C14_EscapedNotClosable ==
    /\ (Queried /\ IsString(state, "Escaped")) =>
           /\ ret.kind # "Ok"
           /\ ~is_corrupted => ret.kind = "NotClosable"
    /\ (~is_corrupted /\ IsStringValue(state, "Open")) =>
           LET r == process_delta(Self, <<"\\">>)
           IN  /\ r.ret.kind = "NotClosable"
               /\ IsStringValue(r.b.state, "Escaped")
               /\ ~r.b.is_corrupted

\* the consumed text ends with a backslash inside a string value, and the
\* completion was NotClosable
C14_Witness ==
    /\ Queried /\ ret.kind = "NotClosable" /\ ~is_corrupted
    /\ IsStringValue(state, "Escaped")
    /\ ref.pos = "StrEsc"

\* the balancer and the outcome after text has been given as one fragment
FedWhole(b, text) ==
    LET r == process_delta(b, text)
    IN  [b |-> r.b, ret |-> r.ret]

\* the same after text has been given as two fragments, cut after k characters
FedSplit(b, text, k) ==
    LET first == process_delta(b, SubSeq(text, 1, k))
        second == process_delta(first.b, SubSeq(text, k + 1, Len(text)))
    IN  [b |-> second.b, ret |-> second.ret]

\* the keywords, and numbers with a sign, a fraction and an exponent
C15_Texts ==
    {<<"t", "r", "u", "e">>, <<"f", "a", "l", "s", "e">>, <<"n", "u", "l", "l">>,
     <<"1", "1">>, <<"-", "1", ".", "1">>, <<"1", "e", "-", "1">>}

\* C15: where a keyword or a number is read as a value, cutting it at any
\* position gives the same final JSONState, stack, flag and completion as
\* giving it as one fragment.
C15_SplitInsideValue ==
    \A text \in C15_Texts :
        (~is_corrupted /\ is_non_string_data(text[1], state)) =>
            \A k \in 1..(Len(text) - 1) : FedSplit(Self, text, k) = FedWhole(Self, text)

\* a number with an exponent has been completed across several fragments
\* (no fragment holds it whole) and is closable, as it is when given whole
C15_Witness ==
    /\ op = "process_delta" /\ ret = RetOk(<<"]">>)
    /\ state = InValueNonString("Bracket", "Completable", <<"1", "e", "1">>)
    /\ FedWhole(Balancer(BracketState("Empty"), closing_stack, FALSE),
                <<"1", "e", "1">>) = [b |-> Self, ret |-> ret]

\* C16: inside an open string (key or value), cutting between a backslash
\* and the character it escapes gives the same final JSONState, stack, flag
\* and completion as giving the two characters as one fragment.
C16_SplitInsideEscape ==
    (~is_corrupted /\ IsString(state, "Open")) =>
        \A c \in SIMPLE_ESCAPES : FedSplit(Self, <<"\\", c>>, 1) = FedWhole(Self, <<"\\", c>>)

\* a string value whose escaped quote arrives cut from its backslash: the
\* quote does not close the string and the outcome is Ok either way
C16_Witness ==
    /\ ~is_corrupted /\ IsStringValue(state, "Open") /\ ref.pos = "Str"
    /\ FedSplit(Self, <<"\\", "\"">>, 1).ret.kind = "Ok"
    /\ IsStringValue(FedSplit(Self, <<"\\", "\"">>, 1).b.state, "Open")

\* the JSONState C17 prescribes after a pop that leaves stack
C17_Prescribed(stack) ==
    IF stack = <<>> THEN Pending
    ELSE IF Last(stack) = "CloseBrace"
    THEN JSONState("Brace", "InValue", "NestedValueCompleted", "None", <<>>)
    ELSE JSONState("Bracket", "InValue", "NestedValueCompleted", "None", <<>>)

\* C17: right after an accepted character whose token is CloseBrace or
\* CloseBracket, the JSONState is InValue(NestedCompleted) of the container
\* whose marker is the new stack top, or Pending if the stack is empty;
\* after any other accepted character it is the state the lexer left.
C17_PopLevelTransition ==
    ~is_corrupted =>
        \A c \in Alphabet :
            LET lex == parse_char(c, state)
                r == add_delta(Self, <<c>>)
            IN  r.ret.kind = "Unit" =>
                    IF lex.tok \in {"CloseBrace", "CloseBracket"}
                    THEN r.b.state = C17_Prescribed(r.b.closing_stack)
                    ELSE r.b.state = lex.st

\* runs of whitespace
WhitespaceRuns == {<<>>, <<" ">>, <<" ", " ">>}

\* a nested container has just closed inside its parent
C18_NestedClosed ==
    /\ ~is_corrupted /\ closing_stack # <<>> /\ ref.pos = "AfterVal"
    /\ IsCompletableNonString(state) /\ state.buf = <<>>

\* the closers of the containers left open once the parent has closed
C18_AncestorClosers ==
    LET rest == Front(closing_stack)
    IN  [i \in 1..Len(rest) |-> C10_Closer(rest[Len(rest) + 1 - i])]

\* C18: after a nested container has closed inside its parent, any run of
\* whitespace followed by the parent's closing delimiter is accepted without
\* corruption, and the completion is Ok with the closers of the ancestors
\* still open.
C18_ParentCloseAfterNested ==
    C18_NestedClosed =>
        \A ws \in WhitespaceRuns :
            LET r == process_delta(Self, ws \o <<get_char(Last(closing_stack))>>)
            IN  /\ ~r.b.is_corrupted
                /\ r.ret = RetOk(C18_AncestorClosers)

\* the characters C19 lists: digits, the minus sign, the first letters of
\* the keywords, the quote, the separators and the closing delimiters
C19_Chars ==
    {"0", "1", "2", "3", "4", "5", "6", "7", "8", "9", "-", "t", "f", "n",
     "\"", ":", ",", "}", "]"}

\* C19: in the Pending state, of a fresh engine or after the top-level
\* container has closed, each of the listed characters gives Corrupted and
\* sets the corruption flag.
C19_TopLevelScalarCorrupts ==
    (~is_corrupted /\ state = Pending) =>
        \A c \in C19_Chars :
            LET r == process_delta(Self, <<c>>)
            IN  r.ret.kind = "Corrupted" /\ r.b.is_corrupted

\* a character after the closed top-level container has just corrupted the
\* engine, found in Pending
C19_Witness ==
    /\ Advanced /\ ret.kind = "Corrupted" /\ is_corrupted /\ ~preCorrupted
    /\ state = Pending
    /\ ref = RefDead("trailing")

\* C20: in Brace(ExpectingKey) and in Bracket(ExpectingValue), the states a
\* separator comma leaves, a closing delimiter, alone or after a run of
\* whitespace, gives Corrupted and sets the corruption flag.
C20_TrailingCommaCorrupts ==
    (~is_corrupted /\ state \in {BraceState("ExpectingKey"), BracketState("ExpectingValue")}) =>
        \A ws \in WhitespaceRuns : \A c \in {"}", "]"} :
            LET r == process_delta(Self, ws \o <<c>>)
            IN  r.ret.kind = "Corrupted" /\ r.b.is_corrupted

\* a closing delimiter after the separator comma of an object has just
\* corrupted the engine
C20_Witness ==
    /\ Advanced /\ ret.kind = "Corrupted" /\ is_corrupted /\ ~preCorrupted
    /\ state = BraceState("ExpectingKey")
    /\ ref = RefDead("comma")

\* the marker of the innermost open container, "None" outside any
InnermostContainer(stack) ==
    LET idx == {i \in 1..Len(stack) : stack[i] \in {"CloseBrace", "CloseBracket"}}
    IN  IF idx = {} THEN "None"
        ELSE stack[CHOOSE i \in idx : \A j \in idx : j <= i]

\* C21: in every non-corrupted state inside a container and outside a
\* string, the closing delimiter of the other kind of container ('}' in an
\* array, ']' in an object) gives Corrupted and sets the corruption flag.
C21_MismatchedCloserCorrupts ==
    (~is_corrupted /\ ~is_string_data(state) /\ InnermostContainer(closing_stack) # "None") =>
        LET c == IF InnermostContainer(closing_stack) = "CloseBracket" THEN "}" ELSE "]"
            r == process_delta(Self, <<c>>)
        IN  r.ret.kind = "Corrupted" /\ r.b.is_corrupted

\* a closing brace has just corrupted an engine whose innermost open
\* container is an array
C21_Witness ==
    /\ Advanced /\ ret.kind = "Corrupted" /\ is_corrupted /\ ~preCorrupted
    /\ InnermostContainer(closing_stack) = "CloseBracket"
    /\ ref = RefDead("mismatch")

\* fragments given to an engine that is corrupted already: a single
\* character, a whole document, and a text no JSON document starts with
CorruptedProbes ==
    {<<"]">>, <<"{", "\"", "x", "\"", ":", "1", "}">>, <<":", ":">>}

\* the balancer after the characters of delta from the i-th on have been
\* given one at a time
RECURSIVE OneAtATime(_, _, _)
OneAtATime(b, delta, i) ==
    IF i > Len(delta) THEN b
    ELSE OneAtATime(add_delta(b, <<delta[i]>>).b, delta, i + 1)

\* C22: an advance of several characters leaves the balancer that its
\* characters, given one at a time in order, leave; it looks at every
\* character unless the engine is corrupted then, and at none if it was
\* corrupted before.
C22_EveryCharacterInOrder ==
    /\ ~is_corrupted =>
           \A delta \in LongFragments :
               LET r == add_delta(Self, delta)
               IN  /\ r.b = OneAtATime(Self, delta, 1)
                   /\ r.examined < Len(delta) => r.b.is_corrupted
                   /\ r.ret.kind = "Unit" <=> ~r.b.is_corrupted
    /\ is_corrupted =>
           \A delta \in CorruptedProbes : add_delta(Self, delta).examined = 0

\* a whole object given as one fragment has been consumed to its end
C22_Witness ==
    /\ op = "add_delta" /\ ret = RetUnit /\ ref.pos = "Done"
    /\ add_delta(Balancer(Pending, <<>>, FALSE),
                 <<"{", "\"", "x", "\"", ":", "1", "}">>).b = Self

\* the three outcomes of a completion
Outcomes == {"Ok", "NotClosable", "Corrupted"}

\* C23: what process_delta and get_completion have returned, and what
\* get_completion would return in any reachable state, is Ok, NotClosable
\* or Corrupted, and nothing else.
C23_ThreeOutcomes ==
    /\ Queried => ret.kind \in Outcomes
    /\ get_completion(Self).kind \in Outcomes

\* a lexical error has just been reported by process_delta, as Corrupted
C23_Witness ==
    /\ op = "process_delta" /\ ret = RetErr("Corrupted") /\ ~preCorrupted
    /\ ref = RefDead("syntax")

\* C24: for every fragment (three of them once the engine is corrupted),
\* process_delta returns what get_completion returns right after add_delta
\* of the same fragment on the same balancer, and leaves the same balancer.
C24_ProcessIsAdvanceThenCompletion ==
    \A delta \in (IF is_corrupted THEN CorruptedProbes ELSE Fragments) :
        LET p == process_delta(Self, delta)
            a == add_delta(Self, delta)
        IN  p.b = a.b /\ p.ret = get_completion(a.b)

\* process_delta has returned NotClosable, as get_completion does now
C24_Witness ==
    /\ op = "process_delta" /\ ret.kind = "NotClosable"
    /\ ret = get_completion(Self)

\* texts that bring a value or a member under way to its end
C25_Later ==
    {<<"1">>, <<"e">>, <<"u", "e">>, <<"r", "u", "e">>, <<"t">>, <<":", "1">>,
     <<"\"", ":", "1">>, <<"t", "\"", ":", "1">>, <<"\"", "x", "\"", ":", "1">>}

\* C25: from every non-corrupted state whose completion is NotClosable,
\* some later text leads to an Ok completion.
C25_NotClosableRecoverable ==
    (~is_corrupted /\ get_completion(Self).kind = "NotClosable") =>
        \E later \in C25_Later : process_delta(Self, later).ret.kind = "Ok"

\* the keys whose marker is buried (C13_BuriedKeyNeverCloses,
\* C13_BuriedKeyStaysBuried) are the only states that are not recoverable
C25_OnlyBuriedKeysStuck ==
    C25_NotClosableRecoverable \/ C13_KeyMarkerBuried

\* the current value is completable: a closed string, a completable number
\* or keyword, or a container that has just closed
C26_Completable ==
    IsStringValue(state, "Closed") \/ IsCompletableNonString(state)

\* C26: when the current value is completable, ',' '}' and ']' are never
\* appended to the buffer of a non-string value, and ',' is accepted and
\* leaves ExpectingKey when the innermost open container is an object,
\* ExpectingValue when it is an array.
C26_DelimiterPreemption ==
    (~is_corrupted /\ C26_Completable) =>
        /\ \A c \in {",", "}", "]"} :
               LET r == add_delta(Self, <<c>>)
               IN  ~(IsNonString(r.b.state) /\ r.b.state.buf = Append(state.buf, c))
        /\ LET r == add_delta(Self, <<",">>)
           IN  /\ ~r.b.is_corrupted
               /\ r.b.closing_stack = closing_stack
               /\ r.b.state = IF InnermostContainer(closing_stack) = "CloseBrace"
                              THEN BraceState("ExpectingKey")
                              ELSE BracketState("ExpectingValue")

\* the state context agrees with the innermost open container
C26_ContextFollowsStack ==
    state.ctx = (IF InnermostContainer(closing_stack) = "CloseBrace"
                 THEN "Brace" ELSE "Bracket")

\* where the state context agrees with the innermost open container the
\* preemption is as C26 says
C26_HoldsWhereContextFollowsStack ==
    C26_ContextFollowsStack => C26_DelimiterPreemption

\* C27: while a string is Escaped, one of " \ / b f n r t returns it to
\* Open with the stack unchanged, u leaves it Escaped, and every other
\* character corrupts the engine.
C27_EscapeResolution ==
    (~is_corrupted /\ IsString(state, "Escaped")) =>
        \A c \in Alphabet \cup SIMPLE_ESCAPES :
            LET r == add_delta(Self, <<c>>)
            IN  IF c \in SIMPLE_ESCAPES
                THEN /\ ~r.b.is_corrupted
                     /\ r.b.state = WithStringState(state, "Open")
                     /\ r.b.closing_stack = closing_stack
                ELSE IF c = "u"
                THEN ~r.b.is_corrupted /\ r.b.state = state
                ELSE r.b.is_corrupted

\* C28: inside an open string every character but the quote is consumed
\* with the stack unchanged, and with the state unchanged too unless it is
\* the backslash; the character that resolves an escape leaves the stack
\* unchanged.
C28_StringFrame ==
    /\ (~is_corrupted /\ IsString(state, "Open")) =>
           \A c \in Alphabet \ {"\""} :
               LET r == add_delta(Self, <<c>>)
               IN  /\ ~r.b.is_corrupted
                   /\ r.b.closing_stack = closing_stack
                   /\ c # "\\" => r.b.state = state
    /\ (~is_corrupted /\ IsString(state, "Escaped")) =>
           \A c \in SIMPLE_ESCAPES \ {"\""} :
               add_delta(Self, <<c>>).b.closing_stack = closing_stack

\* C29: in every non-corrupted state outside a string, a space, tab, line
\* feed or carriage return leaves the state, the stack and the corruption
\* flag as they were.
C29_WhitespaceFrame ==
    (~is_corrupted /\ ~is_string_data(state)) =>
        \A c \in {" ", "\t", "\n", "\r"} : add_delta(Self, <<c>>).b = Self

\* C30: right after a nested container has closed inside a parent, a
\* character is accepted exactly when it is whitespace, the comma or the
\* parent's closing delimiter; every other one corrupts the engine.
C30_AfterNestedClose ==
    C18_NestedClosed =>
        \A c \in Alphabet :
            add_delta(Self, <<c>>).b.is_corrupted
                <=> c \notin {" ", ",", C10_Closer(InnermostContainer(closing_stack))}

\* RFC 8259 numbers: the automaton of the reference recogniser run over a
\* whole text
RefNumStart(c) ==
    CASE c = "-" -> "Minus"
      [] c = "0" -> "Zero"
      [] IsAsciiDigit(c) /\ c # "0" -> "Int"
      [] OTHER -> "Bad"

RECURSIVE RefNumRun(_, _, _)
RefNumRun(q, s, i) ==
    IF i > Len(s) THEN q ELSE RefNumRun(RefNumNext(q, s[i]), s, i + 1)

RefNumState(s) == IF s = <<>> THEN "Bad" ELSE RefNumRun(RefNumStart(s[1]), s, 2)

RefIsNumber(s) == RefNumComplete(RefNumState(s))

RefKeywords ==
    {<<"t", "r", "u", "e">>, <<"f", "a", "l", "s", "e">>, <<"n", "u", "l", "l">>}

\* C31: the buffer of a Completable non-string value is a complete JSON
\* number or one of true, false, null (the empty buffer stands for a nested
\* container that has closed), and a completion asked with a single t, f or
\* n in the buffer is NotClosable.
C31_CompletableIsComplete ==
    /\ (~is_corrupted /\ IsCompletableNonString(state) /\ state.buf # <<>>) =>
           (RefIsNumber(state.buf) \/ state.buf \in RefKeywords)
    /\ (~is_corrupted /\ IsNonString(state) /\ state.buf \in {<<"t">>, <<"f">>, <<"n">>}) =>
           get_completion(Self) = RetErr("NotClosable")

\* what C32 says of a text that starts with t, f or n
C32_Expected(s) ==
    IF s \in RefKeywords THEN "Complete"
    ELSE IF \E k \in RefKeywords : Len(s) < Len(k) /\ IsPrefixOf(s, k) THEN "Incomplete"
    ELSE "InvalidCharInLiteral"

\* C32: for the buffer of every reachable non-string value, corrupted or
\* not, and every character, if buffer and character make a text starting
\* with t, f or n the oracle answers Complete for true, false and null,
\* Incomplete for their proper prefixes and InvalidCharInLiteral otherwise.
C32_KeywordOracle ==
    IsNonString(state) =>
        \A c \in ScalarAlphabet :
            Append(state.buf, c)[1] \in {"t", "f", "n"} =>
                is_non_valid_non_string_data(c, state.buf)
                    = C32_Expected(Append(state.buf, c))

\* the keyword false has been written whole and found Completable
C32_Witness ==
    /\ ~is_corrupted /\ IsCompletableNonString(state)
    /\ state.buf = <<"f", "a", "l", "s", "e">>
    /\ is_non_valid_non_string_data("e", <<"f", "a", "l", "s">>) = "Complete"
    /\ is_non_valid_non_string_data("e", state.buf) = "InvalidCharInLiteral"

\* what C33 says of a text that starts with a digit or the minus sign
C33_Expected(s) ==
    IF RefNumState(s) = "Bad" THEN "InvalidCharInNumber"
    ELSE IF RefIsNumber(s) THEN "Complete"
    ELSE "Incomplete"

\* C33: for the buffer of every reachable non-string value and every
\* character, if buffer and character make a text starting with a digit or
\* the minus sign the oracle answers Complete for a JSON number, Incomplete
\* for a proper prefix of one that is not a number itself, and
\* InvalidCharInNumber otherwise.
C33_NumberOracle ==
    IsNonString(state) =>
        \A c \in ScalarAlphabet :
            LET s == Append(state.buf, c)
            IN  (IsAsciiDigit(s[1]) \/ s[1] = "-") =>
                    is_non_valid_non_string_data(c, state.buf) = C33_Expected(s)

\* c, arriving inside a non-string value, is handed to the oracle: it is
\* neither a quote nor a backslash, nor a delimiter after a completable value
C34_ReachesOracle(c) ==
    /\ IsNonString(state)
    /\ c \notin {"\"", "\\"}
    /\ ~(IsCompletableNonString(state) /\ c \in {",", "}", "]"})

\* C34: when a character handed to the oracle inside a non-string value is
\* judged invalid, the value becomes NonCompletable with the character
\* appended to its buffer, the stack is untouched, the outcome is Corrupted
\* and the flag is set; a delimiter after a NonCompletable value is such a
\* character.
C34_InvalidCharIsKept ==
    (~is_corrupted /\ IsNonString(state)) =>
        /\ \A c \in Alphabet :
               (/\ C34_ReachesOracle(c)
                /\ is_non_valid_non_string_data(c, state.buf) \notin {"Complete", "Incomplete"}) =>
                   LET r == process_delta(Self, <<c>>)
                   IN  /\ r.b.state = InValueNonString(state.ctx, "NonCompletable",
                                                       Append(state.buf, c))
                       /\ r.b.closing_stack = closing_stack
                       /\ r.b.is_corrupted
                       /\ r.ret = RetErr("Corrupted")
        /\ state.tag = "NonCompletable" =>
               \A c \in {",", "}", "]"} :
                   /\ C34_ReachesOracle(c)
                   /\ is_non_valid_non_string_data(c, state.buf) \notin {"Complete", "Incomplete"}

\* the closing bracket of "[1e]" has corrupted the engine and is in the buffer
C34_Witness ==
    /\ Advanced /\ is_corrupted /\ ~preCorrupted /\ ret = RetErr("Corrupted")
    /\ state = InValueNonString("Bracket", "NonCompletable", <<"1", "e", "]">>)
    /\ closing_stack = <<"CloseBracket">>

\* the states in which C35 has an opening delimiter accepted
C35_OpeningStates ==
    {Pending, BraceState("ExpectingValue"), BracketState("Empty"),
     BracketState("ExpectingValue")}

\* C35: outside a string, '{' and '[' are accepted exactly in Pending,
\* Brace(ExpectingValue), Bracket(Empty) and Bracket(ExpectingValue); when
\* accepted the state is the Empty state of the new container and its
\* closing marker is pushed; everywhere else the engine becomes corrupted.
C35_OpeningDelimiters ==
    (~is_corrupted /\ ~is_string_data(state)) =>
        \A c \in {"{", "["} :
            LET r == add_delta(Self, <<c>>)
            IN  IF state \in C35_OpeningStates
                THEN /\ ~r.b.is_corrupted
                     /\ r.b.state = (IF c = "{" THEN BraceState("Empty")
                                     ELSE BracketState("Empty"))
                     /\ r.b.closing_stack =
                            Append(closing_stack,
                                   IF c = "{" THEN "CloseBrace" ELSE "CloseBracket")
                ELSE r.b.is_corrupted

\* the characters that start a value
C36_ValueStarts == {"{", "[", "1", "-", "t"}

\* the order of a member as the lexer states keep it: outside a string a
\* colon is accepted exactly in InKey(Closed) and leaves
\* Brace(ExpectingValue); in Brace(Empty) and Brace(ExpectingKey) the quote
\* opens the key and a colon or a value start corrupts; in InKey(Closed) a
\* second quote or a value start corrupts; a space changes none of these
\* states.
C36_LexicalOrdering ==
    (~is_corrupted /\ ~is_string_data(state)) =>
        /\ LET r == add_delta(Self, <<":">>)
           IN  IF IsInKey(state, "Closed")
               THEN ~r.b.is_corrupted /\ r.b.state = BraceState("ExpectingValue")
                    /\ r.b.closing_stack = closing_stack
               ELSE r.b.is_corrupted
        /\ state \in {BraceState("Empty"), BraceState("ExpectingKey")} =>
               /\ LET r == add_delta(Self, <<"\"">>)
                  IN  ~r.b.is_corrupted /\ r.b.state = InKey("Open")
               /\ \A c \in C36_ValueStarts : add_delta(Self, <<c>>).b.is_corrupted
               /\ add_delta(Self, <<" ">>).b = Self
        /\ IsInKey(state, "Closed") =>
               /\ \A c \in C36_ValueStarts \cup {"\""} : add_delta(Self, <<c>>).b.is_corrupted
               /\ add_delta(Self, <<" ">>).b = Self
        /\ state = BraceState("ExpectingValue") =>
               add_delta(Self, <<" ">>).b = Self

\* C36: what C36_LexicalOrdering says of the state machine, and, of the
\* run: once the comma of an object (the innermost open container is an
\* object) has been accepted, a character that starts a value corrupts the
\* engine, a key having to come first.
C36_MemberOrdering ==
    /\ C36_LexicalOrdering
    /\ (~is_corrupted /\ ~is_string_data(state)
        /\ InnermostContainer(closing_stack) = "CloseBrace") =>
           LET r == add_delta(Self, <<",">>)
           IN  ~r.b.is_corrupted =>
                   \A c \in C36_ValueStarts : add_delta(r.b, <<c>>).b.is_corrupted

\* C37: outside a string a comma is accepted exactly after a completed
\* child (a closed string, a completable number or keyword, a closed nested
\* container), leaving ExpectingKey when the innermost open container is an
\* object and ExpectingValue when it is an array; in every other state it
\* corrupts the engine.
C37_CommaAcceptance ==
    (~is_corrupted /\ ~is_string_data(state)) =>
        LET r == add_delta(Self, <<",">>)
        IN  IF C26_Completable
            THEN /\ ~r.b.is_corrupted
                 /\ r.b.state = IF InnermostContainer(closing_stack) = "CloseBrace"
                                THEN BraceState("ExpectingKey")
                                ELSE BracketState("ExpectingValue")
            ELSE r.b.is_corrupted

\* where the state context agrees with the innermost open container the
\* comma is taken as C37 says
C37_HoldsWhereContextFollowsStack ==
    C26_ContextFollowsStack => C37_CommaAcceptance

\* C38: from every non-corrupted state, a character the lexer accepts is
\* never refused by the stack manager: modify_stack reports neither
\* CorruptedStackMismatchedTokens nor CorruptedStackEmptyOnClose, so the
\* engine is corrupted by lexer errors only.
C38_StackManagerNeverFails ==
    ~is_corrupted =>
        \A c \in Alphabet :
            LET lex == parse_char(c, state)
            IN  lex.ok =>
                    modify_stack(closing_stack, lex.tok).res \in {"Ok", "NotAStructuralToken"}

\* the markers of strings: of a key and of a string value
StringMarkers == {"CloseKey", "CloseStringData"}

\* C39: in every non-corrupted state with a non-empty stack, the top is a
\* string marker exactly when the state is inside an open or escaped string;
\* otherwise it is CloseBrace exactly in a Brace state and CloseBracket
\* exactly in a Bracket state; and no string marker lies under the top.
C39_TopAgreesWithState ==
    (~is_corrupted /\ closing_stack # <<>>) =>
        LET top == Last(closing_stack)
        IN  /\ top \in StringMarkers <=> is_string_data(state)
            /\ top \notin StringMarkers =>
                   /\ top = "CloseBrace" <=> state.ctx = "Brace"
                   /\ top = "CloseBracket" <=> state.ctx = "Bracket"
            /\ \A i \in 1..(Len(closing_stack) - 1) : closing_stack[i] \notin StringMarkers

\* texts given whole and in pieces: a number with an exponent, an escaped
\* quote, a string, two closers of which the second may corrupt, an array
C40_Texts ==
    {<<"1", "e">>, <<"\\", "\"">>, <<"]", "]">>, <<"\"", "x", "\"">>,
     <<"[", "1", "]">>}

\* the balancer and the last outcome after text has been given as three
\* fragments, cut after i and after j characters (empty fragments included)
FedInThree(b, text, i, j) ==
    LET first == add_delta(b, SubSeq(text, 1, i))
        second == add_delta(first.b, SubSeq(text, i + 1, j))
        third == process_delta(second.b, SubSeq(text, j + 1, Len(text)))
    IN  [b |-> third.b, ret |-> third.ret]

\* C40: a text given as any three fragments, empty ones included, leaves
\* the state, the stack, the flag and the completion (the outcome of the
\* last process_delta) that the same text given as one fragment leaves; so
\* any two ways of cutting it agree. Once the engine is corrupted one text
\* is tried.
C40_BoundariesDoNotMatter ==
    \A text \in (IF is_corrupted THEN {<<"]", "]">>} ELSE C40_Texts) :
        LET whole == FedWhole(Self, text)
        IN  \A i \in 0..Len(text) :
                \A j \in i..Len(text) : FedInThree(Self, text, i, j) = whole

\* an array has been given as one fragment, and its pieces give the same
C40_Witness ==
    /\ op = "process_delta" /\ ~is_corrupted /\ ref.pos = "Done" /\ state = Pending
    /\ FedWhole(Balancer(Pending, <<>>, FALSE), <<"[", "1", "]">>)
           = [b |-> Self, ret |-> ret]
    /\ FedInThree(Balancer(Pending, <<>>, FALSE), <<"[", "1", "]">>, 1, 2)
           = [b |-> Self, ret |-> ret]

====
